---- MODULE Spec2Model ----
(***************************************************************************)
(* Token ledger, mint/burn approval workflow, escrow holds and energy      *)
(* auctions of the energy chaincode, as transactions against one key-value *)
(* world state.                                                            *)
(*                                                                         *)
(* Every public method is one transaction.  Inside a transaction GetState  *)
(* returns the committed value of a key (the ledger does not let a         *)
(* transaction read its own writes); PutState adds to a write set that is  *)
(* committed only when the method returns nil.  A method that returns an   *)
(* error commits nothing.                                                  *)
(***************************************************************************)
EXTENDS Integers, FiniteSets, Sequences, TLC

\* ------------------------------------------------------------------ bounds
\* Largest amount argument passed to an operation (the smallest is -1).
MaxAmt == 1
\* Stored integers are kept within -MaxVal .. MaxVal.
MaxVal == 2
\* The clock runs over 0 .. MaxTime minutes.
MaxTime == 1

\* -------------------------------------------------------------- identities
Principals == {"p1", "p2"}

\* ctx.GetClientIdentity().GetMSPID(): p1 is a member of Org1MSP, p2 is not.
GetMSPID(clientID) == IF clientID = "p1" THEN "Org1MSP" ELSE "Org2MSP"

totalSupplyKey == "totalSupply"
MintBurnKey == "MintBurn"
stateOrder == "Ordered"
stateApproved == "Approved"
stateRejected == "Rejected"

\* Simple (non composite) keys of the world state: a balance is stored under
\* the client id itself, next to the two singleton keys.
Keys == Principals \cup {totalSupplyKey, MintBurnKey}

Amounts == -1 .. MaxAmt

\* Auction identifiers; an auction is stored under its identifier itself.
AuctionIDs == {"a1"}
StoreKeys == Keys \cup AuctionIDs

\* ------------------------------------------------------------------ values
\* St_am; the zero value is what a Go map read returns for a missing key.
NoOrder == [MintBurn |-> "", Amount |-> 0, State |-> ""]
St_am(kind, amount, status) == [MintBurn |-> kind, Amount |-> amount, State |-> status]

\* MintBurn.State: map[string]St_am, keyed by client id.
EmptyTable == [p \in Principals |-> NoOrder]

\* FullBid, and the key under which Bid_Rev files it in RevealedBids:
\* CreateCompositeKey(bidKeyType, {auctionID}).
FullBid(price, org, bidder) == [Price |-> price, Org |-> org, Bidder |-> bidder]
bidKey(auctionID) == <<"bid", auctionID>>

\* An empty Go map.
EmptyMap == <<>>

\* Auction, and its zero value.
Auction(amount, priceperkwh, started, time_rem, seller, org) ==
    [Amount |-> amount, PricePerKWh |-> priceperkwh,
     Time_started |-> started, Time_remaining |-> time_rem,
     Seller |-> seller, Orgs |-> <<org>>,
     PrivateBids |-> EmptyMap, RevealedBids |-> EmptyMap,
     Winner |-> "", Price |-> amount * priceperkwh, Status |-> "open"]
NoAuction ==
    [Amount |-> 0, PricePerKWh |-> 0, Time_started |-> 0, Time_remaining |-> 0,
     Seller |-> "", Orgs |-> <<>>, PrivateBids |-> EmptyMap,
     RevealedBids |-> EmptyMap, Winner |-> "", Price |-> 0, Status |-> ""]

\* The bytes stored under a key: nothing, strconv.Itoa(n), the JSON of a
\* MintBurn table, or the JSON of an Auction.
NilV == [kind |-> "nil", n |-> 0, tbl |-> EmptyTable, auc |-> NoAuction]
IntV(n) == [kind |-> "int", n |-> n, tbl |-> EmptyTable, auc |-> NoAuction]
TblV(t) == [kind |-> "orders", n |-> 0, tbl |-> t, auc |-> NoAuction]
AucV(a) == [kind |-> "auction", n |-> 0, tbl |-> EmptyTable, auc |-> a]

\* strconv.Atoi with the error ignored: 0 for bytes that are not a number.
Atoi(v) == IF v.kind = "int" THEN v.n ELSE 0

\* json.Unmarshal(bytes, &mintburn) succeeds only on JSON object bytes.
UnmarshalOK(v) == v.kind = "orders"

\* json.Unmarshal(bytes, &auctionJSON) fails on the bytes of a number; the
\* JSON of an order table has none of the fields of an Auction and decodes
\* to the zero Auction.
UnmarshalAuctionOK(v) == v.kind \in {"auction", "orders"}

\* The world state.  state: the kind of bytes under each simple key and, for
\* a number, its value; orders: the table decoded from the bytes under
\* MintBurnKey (empty while they are no table); hold, allowance: the records
\* under the composite keys.  issued: the amounts of the successful
\* ExecuteMint calls minus those of the successful ExecuteBurn calls so far.
\* auctions: the Auction decoded from the bytes under each auction
\* identifier (the zero Auction while they are no auction).  now: the clock,
\* in minutes.  submitted: for each auction identifier and each bidder the
\* highest price of the bidder's Bid_Rev calls that succeeded since the
\* auction was last created (0 when there is none: a bid that succeeds is
\* positive).
VARIABLES state, orders, hold, allowance, issued, auctions, now, submitted

vars == <<state, orders, hold, allowance, issued, auctions, now, submitted>>

Bytes(v) == [kind |-> v.kind, n |-> v.n]

\* ------------------------------------------------------ transaction context
\* rd: the committed store the transaction reads; wr: rd with the write set
\* applied.
Store == [ws |-> state, tbl |-> orders, hold |-> hold, al |-> allowance, auc |-> auctions]
On(S) == [rd |-> S, wr |-> S]
Begin == On(Store)

GetState(T, key) ==
    [kind |-> T.rd.ws[key].kind, n |-> T.rd.ws[key].n,
     tbl |-> IF key = MintBurnKey THEN T.rd.tbl ELSE EmptyTable,
     auc |-> IF key \in AuctionIDs THEN T.rd.auc[key] ELSE NoAuction]
PutState(T, key, v) ==
    IF key = MintBurnKey
    THEN [T EXCEPT !.wr.ws[key] = Bytes(v), !.wr.tbl = v.tbl]
    ELSE IF key \in AuctionIDs
    THEN [T EXCEPT !.wr.ws[key] = Bytes(v), !.wr.auc[key] = v.auc]
    ELSE [T EXCEPT !.wr.ws[key] = Bytes(v)]
DelState(T, key) == PutState(T, key, NilV)

\* CreateCompositeKey(holdPrefix, {holder}): holds live under their own prefix.
GetHold(T, holder) ==
    IF holder \in Principals
    THEN [kind |-> T.rd.hold[holder].kind, n |-> T.rd.hold[holder].n, tbl |-> EmptyTable]
    ELSE NilV
PutHold(T, holder, v) == [T EXCEPT !.wr.hold[holder] = Bytes(v)]

\* CreateCompositeKey(allowancePrefix, {owner, spender}); a missing record
\* reads as 0 everywhere it is read.
GetAllowance(T, owner, spender) ==
    IF owner \in Principals /\ spender \in Principals
    THEN T.rd.al[<<owner, spender>>] ELSE 0
PutAllowance(T, owner, spender, n) ==
    IF owner \in Principals /\ spender \in Principals
    THEN [T EXCEPT !.wr.al[<<owner, spender>>] = n] ELSE T

Ok(T) == [ok |-> TRUE, err |-> "", t |-> T]
Fail(T, e) == [ok |-> FALSE, err |-> e, t |-> T]

\* A platform that commits the writes of a failed invocation too.
After_PartialWrites(r) ==
    r.t.wr

\* The store an invocation leaves behind: its write set is committed only
\* when it returns nil.
After(r) ==
    IF r.ok THEN r.t.wr ELSE r.t.rd

\* ---------------------------------------------------------------- ledger
\* err: the read of the balance returned an error; the code takes the
\* branch of a missing record then too.
CreateAccount_read(T, clientID, err) ==
    IF err \/ GetState(T, clientID).kind = "nil"
    THEN Ok(PutState(T, clientID, IntV(0)))
    ELSE Fail(T, "account already exist")

\* The invocations of the runs read the store without error.
CreateAccount(T, clientID) ==
    CreateAccount_read(T, clientID, FALSE)

Mint(T, minter, amount) ==
    IF amount <= 0 THEN Fail(T, "mint amount must be a positive integer")
    ELSE LET currentBalance == Atoi(GetState(T, minter))
             T1 == PutState(T, minter, IntV(currentBalance + amount))
             totalSupply == Atoi(GetState(T, totalSupplyKey))
         IN  Ok(PutState(T1, totalSupplyKey, IntV(totalSupply + amount)))

\* Burn without the check of the caller's organization.
Burn_AnyOrg(T, burner, amount) ==
    IF amount <= 0 THEN Fail(T, "burn amount must be a positive integer")
    ELSE IF GetState(T, burner).kind = "nil" THEN Fail(T, "the balance does not exist")
    ELSE LET currentBalance == Atoi(GetState(T, burner))
             T1 == PutState(T, burner, IntV(currentBalance - amount))
             totalSupply == Atoi(GetState(T, totalSupplyKey))
         IN  IF GetState(T, totalSupplyKey).kind = "nil"
             THEN Fail(T1, "totalSupply does not exist")
             ELSE Ok(PutState(T1, totalSupplyKey, IntV(totalSupply - amount)))

Burn(T, burner, amount) ==
    IF GetMSPID(burner) # "Org1MSP" THEN Fail(T, "client is not authorized")
    ELSE IF amount <= 0 THEN Fail(T, "burn amount must be a positive integer")
    ELSE IF GetState(T, burner).kind = "nil" THEN Fail(T, "the balance does not exist")
    ELSE LET currentBalance == Atoi(GetState(T, burner))
             T1 == PutState(T, burner, IntV(currentBalance - amount))
             totalSupply == Atoi(GetState(T, totalSupplyKey))
         IN  IF GetState(T, totalSupplyKey).kind = "nil"
             THEN Fail(T1, "totalSupply does not exist")
             ELSE Ok(PutState(T1, totalSupplyKey, IntV(totalSupply - amount)))

CreateHold(T, clientID, amount) ==
    IF amount <= 0 THEN Fail(T, "hold amount must be a positive integer")
    ELSE IF GetState(T, clientID).kind = "nil" THEN Fail(T, "the balance does not exist")
    ELSE LET currentBalance == Atoi(GetState(T, clientID))
             T1 == PutState(T, clientID, IntV(currentBalance - amount))
             h == GetHold(T, clientID)
             hold_amount == IF h.kind = "nil" THEN amount ELSE Atoi(h) + amount
         IN  Ok(PutHold(T1, clientID, IntV(hold_amount)))

\* ExecuteHold that takes the executed amount off the hold.
ExecuteHold_Decrement(T, clientID, holder, amount) ==
    IF amount <= 0 THEN Fail(T, "hold amount must be a positive integer")
    ELSE IF GetHold(T, holder).kind = "nil" THEN Fail(T, "failed to get hold amount")
    ELSE IF Atoi(GetHold(T, holder)) < amount THEN Fail(T, "error with hold amount")
    ELSE IF GetState(T, clientID).kind = "nil" THEN Fail(T, "the balance does not exist")
    ELSE LET hold_amount == Atoi(GetHold(T, holder))
             T1 == PutState(T, clientID, IntV(Atoi(GetState(T, clientID)) + amount))
         IN  IF GetState(T, holder).kind = "nil"
             THEN Fail(T1, "the balance does not exist")
             ELSE LET T2 == PutState(T1, holder,
                                IntV(Atoi(GetState(T, holder)) + hold_amount - amount))
                  IN  Ok(PutHold(T2, holder, IntV(hold_amount - amount)))

ExecuteHold(T, clientID, holder, amount) ==
    IF amount <= 0 THEN Fail(T, "hold amount must be a positive integer")
    ELSE IF GetHold(T, holder).kind = "nil" THEN Fail(T, "failed to get hold amount")
    ELSE IF Atoi(GetHold(T, holder)) < amount THEN Fail(T, "error with hold amount")
    ELSE IF GetState(T, clientID).kind = "nil" THEN Fail(T, "the balance does not exist")
    ELSE LET hold_amount == Atoi(GetHold(T, holder))
             T1 == PutState(T, clientID, IntV(Atoi(GetState(T, clientID)) + amount))
         IN  IF GetState(T, holder).kind = "nil"
             THEN Fail(T1, "the balance does not exist")
             ELSE LET T2 == PutState(T1, holder,
                                IntV(Atoi(GetState(T, holder)) + hold_amount - amount))
                  IN  Ok(PutHold(T2, holder, IntV(hold_amount)))

\* ReturnHold that zeroes the hold without refunding it.
ReturnHold_NoRefund(T, holder) ==
    IF GetHold(T, holder).kind = "nil" THEN Fail(T, "failed to get hold amount")
    ELSE IF GetState(T, holder).kind = "nil" THEN Fail(T, "the balance does not exist")
    ELSE Ok(PutHold(PutState(T, holder, IntV(Atoi(GetState(T, holder)))), holder, IntV(0)))

ReturnHold(T, holder) ==
    IF GetHold(T, holder).kind = "nil" THEN Fail(T, "failed to get hold amount")
    ELSE IF GetState(T, holder).kind = "nil" THEN Fail(T, "the balance does not exist")
    ELSE LET hold_amount == Atoi(GetHold(T, holder))
             T1 == PutState(T, holder, IntV(Atoi(GetState(T, holder)) + hold_amount))
         IN  Ok(PutHold(T1, holder, IntV(0)))

\* transferHelper without the comparison of the balance with the value.
transferHelper_NoFundsCheck(T, from, to, value) ==
    IF value < 0 THEN Fail(T, "transfer amount cannot be negative")
    ELSE IF GetState(T, from).kind = "nil" THEN Fail(T, "client account has no balance")
    ELSE LET T1 == PutState(T, from, IntV(Atoi(GetState(T, from)) - value))
         IN  Ok(PutState(T1, to, IntV(Atoi(GetState(T, to)) + value)))

transferHelper(T, from, to, value) ==
    IF value < 0 THEN Fail(T, "transfer amount cannot be negative")
    ELSE IF GetState(T, from).kind = "nil" THEN Fail(T, "client account has no balance")
    ELSE IF Atoi(GetState(T, from)) < value
         THEN Fail(T, "client account has insufficient funds")
    ELSE LET fromCurrentBalance == Atoi(GetState(T, from))
             toCurrentBalance == Atoi(GetState(T, to))
             T1 == PutState(T, from, IntV(fromCurrentBalance - value))
         IN  Ok(PutState(T1, to, IntV(toCurrentBalance + value)))

Transfer(T, clientID, recipient, amount) ==
    transferHelper(T, clientID, recipient, amount)

\* Approve that adds the value to the allowance already granted.
Approve_Add(T, owner, spender, value) ==
    Ok(PutAllowance(T, owner, spender, GetAllowance(T, owner, spender) + value))

Approve(T, owner, spender, value) ==
    Ok(PutAllowance(T, owner, spender, value))

\* TransferFrom that leaves the allowance as it was.
TransferFrom_NoDecrement(T, spender, from, to, value) ==
    IF GetAllowance(T, from, spender) < value
    THEN Fail(T, "spender does not have enough allowance for transfer")
    ELSE transferHelper(T, from, to, value)

TransferFrom(T, spender, from, to, value) ==
    LET currentAllowance == GetAllowance(T, from, spender)
    IN  IF currentAllowance < value
        THEN Fail(T, "spender does not have enough allowance for transfer")
        ELSE LET r == transferHelper(T, from, to, value)
             IN  IF ~r.ok THEN r
                 ELSE Ok(PutAllowance(r.t, from, spender, currentAllowance - value))

\* ------------------------------------------------- mint/burn approval workflow
\* s.ClientAccountBalance(ctx) returns an error when the caller has no record.
ClientAccountBalance(T, clientID) ==
    [ok |-> GetState(T, clientID).kind # "nil", v |-> Atoi(GetState(T, clientID))]

\* mintburn.State[key]: a missing key reads as the zero St_am.
Entry(tbl, key) == IF key \in Principals THEN tbl[key] ELSE NoOrder

OrderMint(T, clientID, amount) ==
    LET mb == GetState(T, MintBurnKey)
        table == St_am("Mint", amount, stateOrder)
    IN  IF ~ClientAccountBalance(T, clientID).ok THEN Fail(T, "account does not exist")
        ELSE IF mb.kind = "nil"
             THEN Ok(PutState(T, MintBurnKey, TblV([EmptyTable EXCEPT ![clientID] = table])))
        ELSE IF ~UnmarshalOK(mb) THEN Fail(T, "failed to get json")
        ELSE Ok(PutState(T, MintBurnKey, TblV([mb.tbl EXCEPT ![clientID] = table])))

\* The else branch of OrderBurn stores the kind "Mint" (token_contract.go:892).
OrderBurn(T, clientID, amount) ==
    LET mb == GetState(T, MintBurnKey)
    IN  IF ~ClientAccountBalance(T, clientID).ok THEN Fail(T, "account does not exist")
        ELSE IF mb.kind = "nil"
             THEN Ok(PutState(T, MintBurnKey,
                       TblV([EmptyTable EXCEPT ![clientID] = St_am("Burn", amount, stateOrder)])))
        ELSE IF ~UnmarshalOK(mb) THEN Fail(T, "failed to get json")
        ELSE Ok(PutState(T, MintBurnKey,
                  TblV([mb.tbl EXCEPT ![clientID] = St_am("Mint", amount, stateOrder)])))

\* ExecuteMint that does not compare the amount with the amount ordered.
ExecuteMint_AnyAmount(T, clientID, amount) ==
    LET mb == GetState(T, MintBurnKey)
        table == Entry(mb.tbl, clientID)
    IN  IF ~ClientAccountBalance(T, clientID).ok THEN Fail(T, "account does not exist")
        ELSE IF ~UnmarshalOK(mb) THEN Fail(T, "failed to get json")
        ELSE IF table.State # stateApproved \/ table.MintBurn # "Mint"
             THEN Fail(T, "mint is not approved or amount is different than amount ordered")
        ELSE LET r == Mint(T, clientID, amount)
             IN  IF ~r.ok THEN Fail(r.t, "error minting amount")
                 ELSE Ok(PutState(r.t, MintBurnKey,
                           TblV([mb.tbl EXCEPT ![clientID] = NoOrder])))

ExecuteMint(T, clientID, amount) ==
    LET mb == GetState(T, MintBurnKey)
        table == Entry(mb.tbl, clientID)
    IN  IF ~ClientAccountBalance(T, clientID).ok THEN Fail(T, "account does not exist")
        ELSE IF ~UnmarshalOK(mb) THEN Fail(T, "failed to get json")
        ELSE IF table.State # stateApproved \/ table.Amount # amount \/ table.MintBurn # "Mint"
             THEN Fail(T, "mint is not approved or amount is different than amount ordered")
        ELSE LET r == Mint(T, clientID, amount)
             IN  IF ~r.ok THEN Fail(r.t, "error minting amount")
                 ELSE Ok(PutState(r.t, MintBurnKey,
                           TblV([mb.tbl EXCEPT ![clientID] = NoOrder])))

ExecuteBurn(T, clientID, amount) ==
    LET mb == GetState(T, MintBurnKey)
        table == Entry(mb.tbl, clientID)
    IN  IF ~ClientAccountBalance(T, clientID).ok THEN Fail(T, "account does not exist")
        ELSE IF ~UnmarshalOK(mb) THEN Fail(T, "failed to get json")
        ELSE IF table.State # stateApproved \/ table.Amount # amount \/ table.MintBurn # "Burn"
             THEN Fail(T, "burn is not approved or amount is different than amount ordered")
        ELSE LET r == Burn(T, clientID, amount)
             IN  IF ~r.ok THEN r
                 ELSE Ok(PutState(r.t, MintBurnKey,
                           TblV([mb.tbl EXCEPT ![clientID] = NoOrder])))

\* GetMintOrder / GetBurnOrder read only: ok and the order returned.
GetMintOrder(T, clientID) ==
    LET mb == GetState(T, MintBurnKey)
        mo == Entry(mb.tbl, clientID)
    IN  [ok |-> /\ ClientAccountBalance(T, clientID).ok
                /\ UnmarshalOK(mb)
                /\ mo.MintBurn = "Mint",
         mo |-> mo]

GetBurnOrder(T, clientID) ==
    LET mb == GetState(T, MintBurnKey)
        mo == Entry(mb.tbl, clientID)
    IN  [ok |-> /\ ClientAccountBalance(T, clientID).ok
                /\ UnmarshalOK(mb)
                /\ mo.MintBurn = "Burn",
         mo |-> mo]

\* The decisions of the approving organization.
\* ApproveMint without the check of the caller's organization.
ApproveMint_NoOrgCheck(T, clientID, mint_acc) ==
    LET mb == GetState(T, MintBurnKey)
        mo == Entry(mb.tbl, mint_acc)
    IN  IF ~UnmarshalOK(mb) THEN Fail(T, "there are no Burn Orders")
        ELSE IF mo.MintBurn # "Mint" THEN Fail(T, "there are no Mint Orders")
        ELSE IF mo.State # stateOrder THEN Fail(T, "mint is not in order stage")
        ELSE Ok(PutState(T, MintBurnKey,
                  TblV([mb.tbl EXCEPT ![mint_acc] = [mo EXCEPT !.State = stateApproved]])))

ApproveMint(T, clientID, mint_acc) ==
    LET mb == GetState(T, MintBurnKey)
        mo == Entry(mb.tbl, mint_acc)
    IN  IF GetMSPID(clientID) # "Org1MSP" THEN Fail(T, "client is not authorized")
        ELSE IF ~UnmarshalOK(mb) THEN Fail(T, "there are no Burn Orders")
        ELSE IF mo.MintBurn # "Mint" THEN Fail(T, "there are no Mint Orders")
        ELSE IF mo.State # stateOrder THEN Fail(T, "mint is not in order stage")
        ELSE Ok(PutState(T, MintBurnKey,
                  TblV([mb.tbl EXCEPT ![mint_acc] = [mo EXCEPT !.State = stateApproved]])))

ApproveBurn(T, clientID, burn_acc) ==
    LET mb == GetState(T, MintBurnKey)
        mo == Entry(mb.tbl, burn_acc)
    IN  IF GetMSPID(clientID) # "Org1MSP" THEN Fail(T, "client is not authorized")
        ELSE IF ~UnmarshalOK(mb) THEN Fail(T, "there are no Burn Orders")
        ELSE IF mo.MintBurn # "Burn" THEN Fail(T, "there are no Burn Orders")
        ELSE IF mo.State # stateOrder THEN Fail(T, "mint is not in order stage")
        ELSE Ok(PutState(T, MintBurnKey,
                  TblV([mb.tbl EXCEPT ![burn_acc] = [mo EXCEPT !.State = stateApproved]])))

RejectMint(T, clientID, mint_acc) ==
    LET mb == GetState(T, MintBurnKey)
        mo == Entry(mb.tbl, mint_acc)
    IN  IF GetMSPID(clientID) # "Org1MSP" THEN Fail(T, "client is not authorized")
        ELSE IF ~UnmarshalOK(mb) THEN Fail(T, "there are no Burn Orders")
        ELSE IF mo.MintBurn # "Mint" THEN Fail(T, "there are no Mint Orders")
        ELSE IF mo.State # stateOrder THEN Fail(T, "mint is not in order stage")
        ELSE Ok(PutState(T, MintBurnKey,
                  TblV([mb.tbl EXCEPT ![mint_acc] = [mo EXCEPT !.State = stateRejected]])))

RejectBurn(T, clientID, burn_acc) ==
    LET mb == GetState(T, MintBurnKey)
        mo == Entry(mb.tbl, burn_acc)
    IN  IF GetMSPID(clientID) # "Org1MSP" THEN Fail(T, "client is not authorized")
        ELSE IF ~UnmarshalOK(mb) THEN Fail(T, "there are no Burn Orders")
        ELSE IF mo.MintBurn # "Burn" THEN Fail(T, "there are no Burn Orders")
        ELSE IF mo.State # stateOrder THEN Fail(T, "mint is not in order stage")
        ELSE Ok(PutState(T, MintBurnKey,
                  TblV([mb.tbl EXCEPT ![burn_acc] = [mo EXCEPT !.State = stateRejected]])))

\* ---------------------------------------------------------------- auctions
\* contains(Orgs, clientOrgID).
contains(Orgs, org) == \E i \in 1 .. Len(Orgs) : Orgs[i] = org

\* m[key] = value on a Go map.
MapPut(m, key, value) ==
    [k \in DOMAIN m \cup {key} |-> IF k = key THEN value ELSE m[k]]

\* int(time.Since(auctionJSON.Time_started).Minutes()).
Elapsed(auctionJSON) == now - auctionJSON.Time_started

\* setAssetStateBasedEndorsement and addAssetStateBasedEndorsement change the
\* endorsement policy of the key and no record of the store.
CreateAuction(T, clientID, auctionID, priceperkwh, amount, time_rem) ==
    Ok(PutState(T, auctionID,
                AucV(Auction(amount, priceperkwh, now, time_rem,
                             clientID, GetMSPID(clientID)))))

\* CloseAuction that any caller may invoke.
CloseAuction_AnyCaller(T, clientID, auctionID) ==
    LET v == GetState(T, auctionID)
        auctionJSON == v.auc
    IN  IF v.kind = "nil" THEN Fail(T, "Auction interest object not found")
        ELSE IF ~UnmarshalAuctionOK(v) THEN Fail(T, "failed to create auction object JSON")
        ELSE IF auctionJSON.Status # "open"
             THEN Fail(T, "cannot close auction that is not open")
        ELSE Ok(PutState(T, auctionID, AucV([auctionJSON EXCEPT !.Status = "closed"])))

CloseAuction(T, clientID, auctionID) ==
    LET v == GetState(T, auctionID)
        auctionJSON == v.auc
    IN  IF v.kind = "nil" THEN Fail(T, "Auction interest object not found")
        ELSE IF ~UnmarshalAuctionOK(v) THEN Fail(T, "failed to create auction object JSON")
        ELSE IF auctionJSON.Seller # clientID
             THEN Fail(T, "auction can only be closed by seller")
        ELSE IF auctionJSON.Status # "open"
             THEN Fail(T, "cannot close auction that is not open")
        ELSE Ok(PutState(T, auctionID, AucV([auctionJSON EXCEPT !.Status = "closed"])))

\* The package function CloseAuction, called on the expiry path.
CloseAuction_package(T, clientID, auctionID) ==
    LET v == GetState(T, auctionID)
        auctionJSON == v.auc
    IN  IF v.kind = "nil" THEN Fail(T, "Auction interest object not found")
        ELSE IF ~UnmarshalAuctionOK(v) THEN Fail(T, "failed to create auction object JSON")
        ELSE IF auctionJSON.Seller # clientID
             THEN Fail(T, "auction can only be closed by seller")
        ELSE IF auctionJSON.Status # "open"
             THEN Fail(T, "cannot close auction that is not open")
        ELSE Ok(PutState(T, auctionID, AucV([auctionJSON EXCEPT !.Status = "closed"])))

\* The orders in which "for _, bid := range revealedBidMap" can visit a map.
KeyOrders(m) ==
    {o \in [1 .. Cardinality(DOMAIN m) -> DOMAIN m] :
        \A k \in DOMAIN m : \E i \in DOMAIN o : o[i] = k}

\* The loop that determines the highest bid, visiting the keys in order o.
RECURSIVE ScanBids(_, _)
ScanBids(auctionJSON, o) ==
    IF o = <<>> THEN auctionJSON
    ELSE LET bid == auctionJSON.RevealedBids[Head(o)]
         IN  IF bid.Price > auctionJSON.Price
             THEN ScanBids([auctionJSON EXCEPT !.Winner = bid.Bidder, !.Price = bid.Price],
                           Tail(o))
             ELSE ScanBids(auctionJSON, Tail(o))

\* queryAllBids: no private bid is left unrevealed.
queryAllBids(price, revealedBids, privateBids) ==
    \A k \in DOMAIN privateBids : k \in DOMAIN revealedBids

\* A scan that takes a bid as the winning one whatever the reserve.
EndedRecords_AnyBid(auctionJSON) ==
    {[auctionJSON EXCEPT !.Winner = auctionJSON.RevealedBids[k].Bidder,
                         !.Price = auctionJSON.RevealedBids[k].Price,
                         !.Status = "ended"] : k \in DOMAIN auctionJSON.RevealedBids}

\* The records "ended" that EndAuction can write before it deletes the key,
\* one for each order of the scan.
EndedRecords(auctionJSON) ==
    {[ScanBids(auctionJSON, o) EXCEPT !.Status = "ended"] : o \in KeyOrders(auctionJSON.RevealedBids)}

\* EndAuction that does not require a revealed bid.
EndAuction_NoBidCheck(T, clientID, auctionID) ==
    LET v == GetState(T, auctionID)
        auctionJSON == v.auc
    IN  IF v.kind = "nil" THEN Fail(T, "Auction interest object not found")
        ELSE IF ~UnmarshalAuctionOK(v) THEN Fail(T, "failed to create auction object JSON")
        ELSE IF auctionJSON.Seller # clientID
             THEN Fail(T, "auction can only be ended by seller")
        ELSE IF auctionJSON.Status # "closed" THEN Fail(T, "can only end a closed auction")
        ELSE LET ended == CHOOSE a \in EndedRecords(auctionJSON) : TRUE
             IN  IF ~queryAllBids(ended.Price, ended.RevealedBids, ended.PrivateBids)
                 THEN Fail(T, "cannot close auction")
                 ELSE Ok(DelState(PutState(T, auctionID, AucV(ended)), auctionID))

\* EndAuction that pays the seller out of the winner's hold.
EndAuction_PaysSeller(T, clientID, auctionID) ==
    LET v == GetState(T, auctionID)
        auctionJSON == v.auc
    IN  IF v.kind = "nil" THEN Fail(T, "Auction interest object not found")
        ELSE IF ~UnmarshalAuctionOK(v) THEN Fail(T, "failed to create auction object JSON")
        ELSE IF auctionJSON.Seller # clientID
             THEN Fail(T, "auction can only be ended by seller")
        ELSE IF auctionJSON.Status # "closed" THEN Fail(T, "can only end a closed auction")
        ELSE IF Cardinality(DOMAIN auctionJSON.RevealedBids) = 0
             THEN Fail(T, "no bids have been revealed, cannot end auction")
        ELSE LET ended == CHOOSE a \in EndedRecords(auctionJSON) : TRUE
                 T1 == DelState(PutState(T, auctionID, AucV(ended)), auctionID)
             IN  IF ~queryAllBids(ended.Price, ended.RevealedBids, ended.PrivateBids)
                 THEN Fail(T, "cannot close auction")
                 ELSE IF ended.Winner = "" THEN Ok(T1)
                 ELSE ExecuteHold(T1, clientID, ended.Winner, ended.Price)

\* EndAuction that leaves the ended record in the store.
EndAuction_NoDelete(T, clientID, auctionID) ==
    LET v == GetState(T, auctionID)
        auctionJSON == v.auc
    IN  IF v.kind = "nil" THEN Fail(T, "Auction interest object not found")
        ELSE IF ~UnmarshalAuctionOK(v) THEN Fail(T, "failed to create auction object JSON")
        ELSE IF auctionJSON.Seller # clientID
             THEN Fail(T, "auction can only be ended by seller")
        ELSE IF auctionJSON.Status # "closed" THEN Fail(T, "can only end a closed auction")
        ELSE IF Cardinality(DOMAIN auctionJSON.RevealedBids) = 0
             THEN Fail(T, "no bids have been revealed, cannot end auction")
        ELSE LET ended == CHOOSE a \in EndedRecords(auctionJSON) : TRUE
             IN  IF ~queryAllBids(ended.Price, ended.RevealedBids, ended.PrivateBids)
                 THEN Fail(T, "cannot close auction")
                 ELSE Ok(PutState(T, auctionID, AucV(ended)))

\* The record written is deleted in the same call, so the store EndAuction
\* leaves behind is the same for every order of the scan.
EndAuction(T, clientID, auctionID) ==
    LET v == GetState(T, auctionID)
        auctionJSON == v.auc
    IN  IF v.kind = "nil" THEN Fail(T, "Auction interest object not found")
        ELSE IF ~UnmarshalAuctionOK(v) THEN Fail(T, "failed to create auction object JSON")
        ELSE IF auctionJSON.Seller # clientID
             THEN Fail(T, "auction can only be ended by seller")
        ELSE IF auctionJSON.Status # "closed" THEN Fail(T, "can only end a closed auction")
        ELSE IF Cardinality(DOMAIN auctionJSON.RevealedBids) = 0
             THEN Fail(T, "no bids have been revealed, cannot end auction")
        ELSE LET ended == CHOOSE a \in EndedRecords(auctionJSON) : TRUE
             IN  IF ~queryAllBids(ended.Price, ended.RevealedBids, ended.PrivateBids)
                 THEN Fail(T, "cannot close auction")
                 ELSE Ok(DelState(PutState(T, auctionID, AucV(ended)), auctionID))

\* The package function EndAuction, called on the expiry path.
EndAuction_package(T, clientID, auctionID) ==
    LET v == GetState(T, auctionID)
        auctionJSON == v.auc
    IN  IF v.kind = "nil" THEN Fail(T, "Auction interest object not found")
        ELSE IF ~UnmarshalAuctionOK(v) THEN Fail(T, "failed to create auction object JSON")
        ELSE IF auctionJSON.Seller # clientID
             THEN Fail(T, "auction can only be ended by seller")
        ELSE IF auctionJSON.Status # "closed" THEN Fail(T, "can only end a closed auction")
        ELSE IF Cardinality(DOMAIN auctionJSON.RevealedBids) = 0
             THEN Fail(T, "no bids have been revealed, cannot end auction")
        ELSE LET ended == CHOOSE a \in EndedRecords(auctionJSON) : TRUE
             IN  IF ~queryAllBids(ended.Price, ended.RevealedBids, ended.PrivateBids)
                 THEN Fail(T, "cannot close auction")
                 ELSE Ok(DelState(PutState(T, auctionID, AucV(ended)), auctionID))

\* Bid_Rev that accepts a bid whatever the status of the auction.
Bid_Rev_AnyStatus(T, clientID, auctionID, amount) ==
    LET v == GetState(T, auctionID)
        auctionJSON == v.auc
        NewBid == FullBid(amount, GetMSPID(clientID), clientID)
        bidders == MapPut(auctionJSON.RevealedBids, bidKey(auctionID), NewBid)
        newOrgs == IF contains(auctionJSON.Orgs, GetMSPID(clientID))
                   THEN auctionJSON.Orgs
                   ELSE Append(auctionJSON.Orgs, GetMSPID(clientID))
    IN  IF v.kind = "nil" THEN Fail(T, "Auction not found")
        ELSE IF ~UnmarshalAuctionOK(v) THEN Fail(T, "failed to create auction object JSON")
        ELSE IF Elapsed(auctionJSON) >= auctionJSON.Time_remaining
             THEN LET r1 == CloseAuction_package(T, clientID, auctionID)
                      r2 == EndAuction_package(r1.t, clientID, auctionID)
                  IN  Fail(r2.t, "time is up")
        ELSE IF ~ClientAccountBalance(T, clientID).ok THEN Fail(T, "cannot get balance")
        ELSE IF ClientAccountBalance(T, clientID).v < amount
             THEN Fail(T, "balance is less than amount")
        ELSE LET T1 == PutState(T, auctionID,
                          AucV([auctionJSON EXCEPT !.RevealedBids = bidders, !.Orgs = newOrgs]))
                 r == CreateHold(T1, clientID, amount)
             IN  IF ~r.ok THEN Fail(r.t, "cannot create hold") ELSE Ok(r.t)

\* Bid_Rev that does not compare the caller's balance with the amount.
Bid_Rev_NoFundsCheck(T, clientID, auctionID, amount) ==
    LET v == GetState(T, auctionID)
        auctionJSON == v.auc
        NewBid == FullBid(amount, GetMSPID(clientID), clientID)
        bidders == MapPut(auctionJSON.RevealedBids, bidKey(auctionID), NewBid)
        newOrgs == IF contains(auctionJSON.Orgs, GetMSPID(clientID))
                   THEN auctionJSON.Orgs
                   ELSE Append(auctionJSON.Orgs, GetMSPID(clientID))
    IN  IF v.kind = "nil" THEN Fail(T, "Auction not found")
        ELSE IF ~UnmarshalAuctionOK(v) THEN Fail(T, "failed to create auction object JSON")
        ELSE IF auctionJSON.Status # "open" THEN Fail(T, "cannot join closed or ended auction")
        ELSE IF Elapsed(auctionJSON) >= auctionJSON.Time_remaining
             THEN LET r1 == CloseAuction_package(T, clientID, auctionID)
                      r2 == EndAuction_package(r1.t, clientID, auctionID)
                  IN  Fail(r2.t, "time is up")
        ELSE IF ~ClientAccountBalance(T, clientID).ok THEN Fail(T, "cannot get balance")
        ELSE LET T1 == PutState(T, auctionID,
                          AucV([auctionJSON EXCEPT !.RevealedBids = bidders, !.Orgs = newOrgs]))
                 r == CreateHold(T1, clientID, amount)
             IN  IF ~r.ok THEN Fail(r.t, "cannot create hold") ELSE Ok(r.t)

\* Bid_Rev that takes a bid after the auction's time is up.
Bid_Rev_NoExpiry(T, clientID, auctionID, amount) ==
    LET v == GetState(T, auctionID)
        auctionJSON == v.auc
        NewBid == FullBid(amount, GetMSPID(clientID), clientID)
        bidders == MapPut(auctionJSON.RevealedBids, bidKey(auctionID), NewBid)
        newOrgs == IF contains(auctionJSON.Orgs, GetMSPID(clientID)) THEN auctionJSON.Orgs
                   ELSE Append(auctionJSON.Orgs, GetMSPID(clientID))
    IN  IF v.kind = "nil" THEN Fail(T, "Auction not found")
        ELSE IF ~UnmarshalAuctionOK(v) THEN Fail(T, "failed to create auction object JSON")
        ELSE IF auctionJSON.Status # "open" THEN Fail(T, "cannot join closed or ended auction")
        ELSE IF ~ClientAccountBalance(T, clientID).ok THEN Fail(T, "cannot get balance")
        ELSE IF ClientAccountBalance(T, clientID).v < amount
             THEN Fail(T, "balance is less than amount")
        ELSE LET T1 == PutState(T, auctionID,
                                AucV([auctionJSON EXCEPT !.RevealedBids = bidders,
                                                         !.Orgs = newOrgs]))
                 r == CreateHold(T1, clientID, amount)
             IN  IF ~r.ok THEN Fail(r.t, "cannot create hold") ELSE Ok(r.t)

\* Bid_Rev that records the bid without putting its amount on hold.
Bid_Rev_NoHold(T, clientID, auctionID, amount) ==
    LET v == GetState(T, auctionID)
        auctionJSON == v.auc
        NewBid == FullBid(amount, GetMSPID(clientID), clientID)
        bidders == MapPut(auctionJSON.RevealedBids, bidKey(auctionID), NewBid)
        newOrgs == IF contains(auctionJSON.Orgs, GetMSPID(clientID)) THEN auctionJSON.Orgs
                   ELSE Append(auctionJSON.Orgs, GetMSPID(clientID))
    IN  IF v.kind = "nil" THEN Fail(T, "Auction not found")
        ELSE IF ~UnmarshalAuctionOK(v) THEN Fail(T, "failed to create auction object JSON")
        ELSE IF auctionJSON.Status # "open" THEN Fail(T, "cannot join closed or ended auction")
        ELSE IF Elapsed(auctionJSON) >= auctionJSON.Time_remaining
             THEN LET r1 == CloseAuction_package(T, clientID, auctionID)
                      r2 == EndAuction_package(r1.t, clientID, auctionID)
                  IN  Fail(r2.t, "time is up")
        ELSE IF ~ClientAccountBalance(T, clientID).ok THEN Fail(T, "cannot get balance")
        ELSE IF ClientAccountBalance(T, clientID).v < amount
             THEN Fail(T, "balance is less than amount")
        ELSE IF amount <= 0 THEN Fail(T, "cannot create hold")
        ELSE Ok(PutState(T, auctionID,
                         AucV([auctionJSON EXCEPT !.RevealedBids = bidders,
                                                  !.Orgs = newOrgs])))

\* On the expiry path the results of CloseAuction and EndAuction are dropped
\* and the call returns an error, so none of their writes is committed.
Bid_Rev(T, clientID, auctionID, amount) ==
    LET v == GetState(T, auctionID)
        auctionJSON == v.auc
        NewBid == FullBid(amount, GetMSPID(clientID), clientID)
        bidders == MapPut(auctionJSON.RevealedBids, bidKey(auctionID), NewBid)
        newOrgs == IF contains(auctionJSON.Orgs, GetMSPID(clientID))
                   THEN auctionJSON.Orgs
                   ELSE Append(auctionJSON.Orgs, GetMSPID(clientID))
    IN  IF v.kind = "nil" THEN Fail(T, "Auction not found")
        ELSE IF ~UnmarshalAuctionOK(v) THEN Fail(T, "failed to create auction object JSON")
        ELSE IF auctionJSON.Status # "open" THEN Fail(T, "cannot join closed or ended auction")
        ELSE IF Elapsed(auctionJSON) >= auctionJSON.Time_remaining
             THEN LET r1 == CloseAuction_package(T, clientID, auctionID)
                      r2 == EndAuction_package(r1.t, clientID, auctionID)
                  IN  Fail(r2.t, "time is up")
        ELSE IF ~ClientAccountBalance(T, clientID).ok THEN Fail(T, "cannot get balance")
        ELSE IF ClientAccountBalance(T, clientID).v < amount
             THEN Fail(T, "balance is less than amount")
        ELSE LET T1 == PutState(T, auctionID,
                          AucV([auctionJSON EXCEPT !.RevealedBids = bidders, !.Orgs = newOrgs]))
                 r == CreateHold(T1, clientID, amount)
             IN  IF ~r.ok THEN Fail(r.t, "cannot create hold") ELSE Ok(r.t)

\* What CheckAuction returns: the error and the auction decoded so far.
Returns(r, auctionJSON) ==
    [ok |-> r.ok, err |-> r.err, t |-> r.t, auction |-> auctionJSON]

\* CheckAuction that any organization may invoke.
CheckAuction_AnyOrg(T, clientID, auctionID) ==
    LET v == GetState(T, auctionID)
        auctionJSON == v.auc
    IN  IF v.kind = "nil" THEN Returns(Fail(T, "Auction not found"), NoAuction)
        ELSE IF ~UnmarshalAuctionOK(v)
             THEN Returns(Fail(T, "failed to create auction object JSON"), NoAuction)
        ELSE IF auctionJSON.Status # "open"
             THEN Returns(Fail(T, "auction closed or ended auction"), auctionJSON)
        ELSE IF Elapsed(auctionJSON) >= auctionJSON.Time_remaining
             THEN LET r1 == CloseAuction_package(T, clientID, auctionID)
                      r2 == EndAuction_package(r1.t, clientID, auctionID)
                  IN  Returns(Fail(r2.t, "auction closed and ended"), auctionJSON)
        ELSE Returns(Ok(T), auctionJSON)

\* As in Bid_Rev, the writes of the expiry path are dropped with the error
\* the call returns.
CheckAuction(T, clientID, auctionID) ==
    LET v == GetState(T, auctionID)
        auctionJSON == v.auc
    IN  IF GetMSPID(clientID) # "Org1MSP"
        THEN Returns(Fail(T, "client is not authorized to check auctions"), NoAuction)
        ELSE IF v.kind = "nil" THEN Returns(Fail(T, "Auction not found"), NoAuction)
        ELSE IF ~UnmarshalAuctionOK(v)
             THEN Returns(Fail(T, "failed to create auction object JSON"), NoAuction)
        ELSE IF auctionJSON.Status # "open"
             THEN Returns(Fail(T, "auction closed or ended auction"), auctionJSON)
        ELSE IF Elapsed(auctionJSON) >= auctionJSON.Time_remaining
             THEN LET r1 == CloseAuction_package(T, clientID, auctionID)
                      r2 == EndAuction_package(r1.t, clientID, auctionID)
                  IN  Returns(Fail(r2.t, "auction closed and ended"), auctionJSON)
        ELSE Returns(Ok(T), auctionJSON)

\* ------------------------------------------------------------ transactions
\* Stored integers stay within the model's range.
InRange(S) ==
    /\ \A k \in StoreKeys : S.ws[k].n \in -MaxVal .. MaxVal
    /\ \A p \in Principals : S.hold[p].n \in -MaxVal .. MaxVal
    /\ \A o \in Principals, s \in Principals : S.al[<<o, s>>] \in -MaxVal .. MaxVal

\* One invocation: the write set is committed when the method returns nil; a
\* method that returns an error commits nothing, so it is no step at all.
CommitAuction(r, net, bids) ==
    /\ r.ok
    /\ InRange(r.t.wr)
    /\ issued + net \in -MaxVal .. MaxVal
    /\ state' = r.t.wr.ws
    /\ orders' = r.t.wr.tbl
    /\ hold' = r.t.wr.hold
    /\ allowance' = r.t.wr.al
    /\ auctions' = r.t.wr.auc
    /\ issued' = issued + net
    /\ submitted' = bids
    /\ now' = now

Commit(r, net) == CommitAuction(r, net, submitted)

\* The callers are the principals; string arguments are drawn from the
\* simple keys of the store, amounts from the sets the specification passes.
TxCreateAccount ==
    \E c \in Principals : Commit(CreateAccount(Begin, c), 0)

TxCreateHold(Amts) ==
    \E c \in Principals, a \in Amts : Commit(CreateHold(Begin, c, a), 0)

TxReturnHold ==
    \E c \in Principals, h \in Keys : Commit(ReturnHold(Begin, h), 0)

TxExecuteHold(Amts) ==
    \E c \in Principals, h \in Keys, a \in Amts : Commit(ExecuteHold(Begin, c, h, a), 0)

TxTransfer(Amts) ==
    \E c \in Principals, r \in Keys, a \in Amts : Commit(Transfer(Begin, c, r, a), 0)

\* The spender approved is another principal.
TxApprove(Amts) ==
    \E c \in Principals : \E s \in Principals \ {c}, a \in Amts :
        Commit(Approve(Begin, c, s, a), 0)

TxTransferFrom(Amts) ==
    \E c \in Principals, f \in Keys, t \in Keys, a \in Amts :
        Commit(TransferFrom(Begin, c, f, t, a), 0)

TxOrderMint(Amts) ==
    \E c \in Principals, a \in Amts : Commit(OrderMint(Begin, c, a), 0)

TxOrderBurn(Amts) ==
    \E c \in Principals, a \in Amts : Commit(OrderBurn(Begin, c, a), 0)

TxExecuteMint(Amts) ==
    \E c \in Principals, a \in Amts : Commit(ExecuteMint(Begin, c, a), a)

TxExecuteBurn(Amts) ==
    \E c \in Principals, a \in Amts : Commit(ExecuteBurn(Begin, c, a), -a)

TxApproveMint ==
    \E c \in Principals, acc \in Keys : Commit(ApproveMint(Begin, c, acc), 0)

TxApproveBurn ==
    \E c \in Principals, acc \in Keys : Commit(ApproveBurn(Begin, c, acc), 0)

TxRejectMint ==
    \E c \in Principals, acc \in Keys : Commit(RejectMint(Begin, c, acc), 0)

TxRejectBurn ==
    \E c \in Principals, acc \in Keys : Commit(RejectBurn(Begin, c, acc), 0)

\* The arguments of CreateAuction: the unit price, the quantity sold and the
\* duration in minutes; the reserve is their product quantity x unit price.
UnitPrices == {0, 1}
Quantities == {1}
Durations == {1}

NoBids == [b \in Principals |-> 0]

\* A bid is at most the largest balance.
Bids == -1 .. MaxVal

TxCreateAuction ==
    \E c \in Principals, id \in AuctionIDs, p \in UnitPrices, q \in Quantities, d \in Durations :
        CommitAuction(CreateAuction(Begin, c, id, p, q, d), 0,
                      [submitted EXCEPT ![id] = NoBids])

TxBid_Rev(Amts) ==
    \E c \in Principals, id \in AuctionIDs, a \in Amts :
        CommitAuction(Bid_Rev(Begin, c, id, a), 0,
                      [submitted EXCEPT ![id][c] = IF a > @ THEN a ELSE @])

TxCloseAuction ==
    \E c \in Principals, id \in AuctionIDs : Commit(CloseAuction(Begin, c, id), 0)

TxEndAuction ==
    \E c \in Principals, id \in AuctionIDs :
        CommitAuction(EndAuction(Begin, c, id), 0, [submitted EXCEPT ![id] = NoBids])

\* A minute passes.
Tick ==
    /\ now < MaxTime
    /\ now' = now + 1
    /\ UNCHANGED <<state, orders, hold, allowance, issued, auctions, submitted>>

Init ==
    /\ state = [k \in StoreKeys |-> Bytes(NilV)]
    /\ orders = EmptyTable
    /\ hold = [p \in Principals |-> Bytes(NilV)]
    /\ allowance = [x \in Principals \X Principals |-> 0]
    /\ issued = 0
    /\ auctions = [id \in AuctionIDs |-> NoAuction]
    /\ now = 0
    /\ submitted = [id \in AuctionIDs |-> NoBids]

\* Tokens enter the ledger only through an approved mint order.
Positive == 1 .. MaxAmt

Issue ==
    \/ TxCreateAccount
    \/ TxOrderMint(Positive)
    \/ TxApproveMint
    \/ TxExecuteMint(Positive)

\* Accounts, transfers and holds.
Next ==
    \/ Issue
    \/ TxTransfer(Amounts)
    \/ TxCreateHold(Amounts)
    \/ TxReturnHold

Spec == Init /\ [][Next]_vars

\* The ledger with the package-level ExecuteHold invoked on it.
NextHold ==
    \/ Next
    \/ TxExecuteHold(Amounts)

SpecHold == Init /\ [][NextHold]_vars

\* Accounts, transfers and allowances.
NextAllowance ==
    \/ Issue
    \/ TxTransfer(Amounts)
    \/ TxApprove(Amounts)
    \/ TxTransferFrom(Amounts)

SpecAllowance == Init /\ [][NextAllowance]_vars

\* The approval workflow, with transfers between the accounts it funds.
NextWorkflow ==
    \/ TxCreateAccount
    \/ TxOrderMint(Amounts)
    \/ TxOrderBurn(Amounts)
    \/ TxApproveMint
    \/ TxApproveBurn
    \/ TxRejectMint
    \/ TxRejectBurn
    \/ TxExecuteMint(Amounts)
    \/ TxExecuteBurn(Amounts)
    \/ TxTransfer(Amounts)

SpecWorkflow == Init /\ [][NextWorkflow]_vars

\* Auctions, with the accounts that fund the bids, one token to an order,
\* and the return of holds.
Unit == {1}

NextAuction ==
    \/ TxCreateAccount
    \/ TxOrderMint(Unit)
    \/ TxApproveMint
    \/ TxExecuteMint(Unit)
    \/ TxReturnHold
    \/ TxCreateAuction
    \/ TxBid_Rev(Bids)
    \/ TxCloseAuction
    \/ TxEndAuction
    \/ Tick

SpecAuction == Init /\ [][NextAuction]_vars

\* ----------------------------------------------------- the public surface
\* contractapi.NewChaincode(&SmartContract{}) exposes the methods of
\* SmartContract; Mint and Burn are package functions reachable only through
\* ExecuteMint and ExecuteBurn, and the package function ExecuteHold has no
\* caller among them.
Invocation(op, c, k1, k2, a) == [op |-> op, c |-> c, k1 |-> k1, k2 |-> k2, a |-> a]

PublicCalls ==
    {Invocation("CreateAccount", c, "", "", 0) : c \in Principals}
    \cup {Invocation(op, c, "", "", a) :
            op \in {"CreateHold", "OrderMint", "OrderBurn", "ExecuteMint", "ExecuteBurn"},
            c \in Principals, a \in Amounts}
    \cup {Invocation(op, c, k, "", 0) :
            op \in {"ReturnHold", "ApproveMint", "ApproveBurn", "RejectMint", "RejectBurn"},
            c \in Principals, k \in Keys}
    \cup {Invocation("Transfer", c, k, "", a) : c \in Principals, k \in Keys, a \in Amounts}
    \cup {Invocation("Approve", c, k, "", a) : c \in Principals, k \in Principals, a \in Amounts}
    \cup {Invocation("TransferFrom", c, f, t, a) :
            c \in Principals, f \in Keys, t \in Keys, a \in Amounts}

Invoke(T, call) ==
    CASE call.op = "CreateAccount" -> CreateAccount(T, call.c)
      [] call.op = "CreateHold" -> CreateHold(T, call.c, call.a)
      [] call.op = "ReturnHold" -> ReturnHold(T, call.k1)
      [] call.op = "Transfer" -> Transfer(T, call.c, call.k1, call.a)
      [] call.op = "Approve" -> Approve(T, call.c, call.k1, call.a)
      [] call.op = "TransferFrom" -> TransferFrom(T, call.c, call.k1, call.k2, call.a)
      [] call.op = "OrderMint" -> OrderMint(T, call.c, call.a)
      [] call.op = "OrderBurn" -> OrderBurn(T, call.c, call.a)
      [] call.op = "ExecuteMint" -> ExecuteMint(T, call.c, call.a)
      [] call.op = "ExecuteBurn" -> ExecuteBurn(T, call.c, call.a)
      [] call.op = "ApproveMint" -> ApproveMint(T, call.c, call.k1)
      [] call.op = "ApproveBurn" -> ApproveBurn(T, call.c, call.k1)
      [] call.op = "RejectMint" -> RejectMint(T, call.c, call.k1)
      [] call.op = "RejectBurn" -> RejectBurn(T, call.c, call.k1)

\* The public methods of the auctions, with the arguments the transactions
\* draw.
AuctionInvocation(op, c, id, args) == [op |-> op, c |-> c, id |-> id, args |-> args]

AuctionCalls ==
    {AuctionInvocation("CreateAuction", c, id, <<p, q, d>>) :
        c \in Principals, id \in AuctionIDs,
        p \in UnitPrices, q \in Quantities, d \in Durations}
    \cup {AuctionInvocation("Bid_Rev", c, id, <<a>>) :
            c \in Principals, id \in AuctionIDs, a \in Bids}
    \cup {AuctionInvocation(op, c, id, <<>>) :
            op \in {"CloseAuction", "EndAuction", "CheckAuction"},
            c \in Principals, id \in AuctionIDs}

InvokeAuction(T, call) ==
    CASE call.op = "CreateAuction" ->
            CreateAuction(T, call.c, call.id, call.args[1], call.args[2], call.args[3])
      [] call.op = "Bid_Rev" -> Bid_Rev(T, call.c, call.id, call.args[1])
      [] call.op = "CloseAuction" -> CloseAuction(T, call.c, call.id)
      [] call.op = "EndAuction" -> EndAuction(T, call.c, call.id)
      [] call.op = "CheckAuction" -> CheckAuction(T, call.c, call.id)

\* ------------------------------------------------------------ observations
\* BalanceOf / TotalSupply / GetAccount as they read a store S.
Exists(S, key) == S.ws[key].kind # "nil"
BalanceOf(S, key) == Atoi(S.ws[key])
TotalSupply(S) == Atoi(S.ws[totalSupplyKey])
OnHold(S, p) == Atoi(S.hold[p])
HasHold(S, p) == S.hold[p].kind # "nil"
Allowance(S, owner, spender) == S.al[<<owner, spender>>]
OrderOf(S, p) == Entry(S.tbl, p)

\* The auction stored under an identifier, and its status ("" when the key
\* holds no auction).
IsAuction(S, id) == S.ws[id].kind = "auction"
AuctionOf(S, id) == IF IsAuction(S, id) THEN S.auc[id] ELSE NoAuction
StatusOf(S, id) == AuctionOf(S, id).Status

RECURSIVE SumOver(_, _)
SumOver(S, ks) ==
    IF ks = {} THEN 0
    ELSE LET k == CHOOSE x \in ks : TRUE
         IN  BalanceOf(S, k) + SumOver(S, ks \ {k})

\* The sum of the balances stored under all simple keys.
SumBalances(S) == SumOver(S, Keys)

\* ================================================================== claims

\* C1: in every reachable state the stored total supply equals the amounts
\* of all successful mints minus the amounts of all successful burns; no
\* other operation changes it.
C1_SupplyIsMintedMinusBurned == TotalSupply(Store) = issued

\* C2: every successful Transfer and TransferFrom leaves the sum of all
\* balances unchanged, whatever the sender, the recipient (the sender
\* included) and the amount >= 0.
C2_TransfersConserveBalances ==
    /\ \A c \in Principals, r \in Keys, a \in 0 .. MaxAmt :
          LET res == Transfer(Begin, c, r, a)
          IN  res.ok => SumBalances(res.t.wr) = SumBalances(Store)
    /\ \A c \in Principals, f \in Keys, t \in Keys, a \in 0 .. MaxAmt :
          LET res == TransferFrom(Begin, c, f, t, a)
          IN  res.ok => SumBalances(res.t.wr) = SumBalances(Store)

\* C3: Transfer and TransferFrom never take the sender's balance below zero:
\* with a sender balance smaller than the amount the call fails and has
\* written nothing.
C3_NoOverdraft ==
    /\ \A c \in Principals, r \in Keys, a \in Amounts :
          LET res == Transfer(Begin, c, r, a)
          IN  /\ BalanceOf(Store, c) < a => ~res.ok /\ res.t.wr = Store
              /\ res.ok => BalanceOf(res.t.wr, c) >= 0
    /\ \A c \in Principals, f \in Keys, t \in Keys, a \in Amounts :
          LET res == TransferFrom(Begin, c, f, t, a)
          IN  /\ BalanceOf(Store, f) < a => ~res.ok /\ res.t.wr = Store
              /\ res.ok => BalanceOf(res.t.wr, f) >= 0

\* A spender holds an allowance that the owner's balance does not cover, and
\* the transfer is refused.
C3_Witness ==
    \E c \in Principals, f \in Principals, t \in Keys, a \in 1 .. MaxAmt :
        /\ Exists(Store, f)
        /\ Allowance(Store, f, c) >= a
        /\ BalanceOf(Store, f) < a
        /\ TransferFrom(Begin, c, f, t, a).err = "client account has insufficient funds"

\* C4: CreateHold(amount) fails when the caller's balance is less than amount.
C4_HoldNeedsBalance ==
    \A c \in Principals, a \in Amounts :
        Exists(Store, c) /\ BalanceOf(Store, c) < a => ~CreateHold(Begin, c, a).ok

\* C5: every account's balance is non-negative in every reachable state.
C5_BalancesNonNegative == \A p \in Principals : BalanceOf(Store, p) >= 0

\* What a principal owns: its active balance plus its outstanding hold.
Owned(S, p) == BalanceOf(S, p) + OnHold(S, p)

\* C6: for a holder and a distinct caller, the holder's balance plus hold is
\* conserved by CreateHold and by ReturnHold, and ExecuteHold(holder, amount)
\* reduces it by exactly amount, the amount credited to the caller.
C6_HoldCycleConserves ==
    \A h \in Principals :
        /\ \A a \in Amounts :
              LET res == CreateHold(Begin, h, a)
              IN  res.ok => Owned(res.t.wr, h) = Owned(Store, h)
        /\ LET res == ReturnHold(Begin, h)
           IN  res.ok => Owned(res.t.wr, h) = Owned(Store, h)
        /\ \A c \in Principals \ {h}, a \in Amounts :
              LET res == ExecuteHold(Begin, c, h, a)
              IN  res.ok => /\ BalanceOf(res.t.wr, c) = BalanceOf(Store, c) + a
                            /\ Owned(res.t.wr, h) = Owned(Store, h) - a

\* CreateHold(a) by c committed on the current store, then ReturnHold(c) by
\* anyone: the store after both, and whether both succeeded.
HoldThenReturn(c, a) ==
    LET r1 == CreateHold(Begin, c, a)
        r2 == ReturnHold(On(r1.t.wr), c)
    IN  [ok |-> r1.ok /\ r2.ok, created |-> r1.ok, S |-> r2.t.wr]

\* C7 as stated: a successful CreateHold(a) immediately followed by
\* ReturnHold restores the balance to its value before the CreateHold and
\* leaves the hold at zero.
C7_ReturnRestoresBalance ==
    \A c \in Principals, a \in Amounts :
        LET two == HoldThenReturn(c, a)
        IN  two.created => /\ two.ok
                           /\ BalanceOf(two.S, c) = BalanceOf(Store, c)
                           /\ HasHold(two.S, c) /\ OnHold(two.S, c) = 0

\* C7 amended: the balance after the ReturnHold is the balance before the
\* CreateHold plus the hold that was already outstanding then; the hold is
\* zero.
C7_ReturnRefundsWholeHold ==
    \A c \in Principals, a \in Amounts :
        LET two == HoldThenReturn(c, a)
        IN  two.created => /\ two.ok
                           /\ BalanceOf(two.S, c) = BalanceOf(Store, c) + OnHold(Store, c)
                           /\ HasHold(two.S, c) /\ OnHold(two.S, c) = 0

\* A principal that already has an outstanding hold creates another one and
\* has the whole of it returned.
C7_Witness ==
    \E c \in Principals, a \in 1 .. MaxAmt :
        /\ OnHold(Store, c) > 0
        /\ HoldThenReturn(c, a).ok
        /\ BalanceOf(HoldThenReturn(c, a).S, c) = BalanceOf(Store, c) + OnHold(Store, c)

\* Approve(spender, v) by owner committed on the current store, then
\* TransferFrom(owner, to, v) by the spender.
ApproveThenDraw(owner, spender, to, v) ==
    LET r1 == Approve(Begin, owner, spender, v)
    IN  TransferFrom(On(r1.t.wr), spender, owner, to, v)

\* While the (owner, spender) allowance is zero, the spender draws nothing
\* positive from the owner, and only an Approve(spender, _) by the owner
\* changes the allowance.
DrainedUntilApproved ==
    /\ \A o \in Principals, s \in Principals :
          Allowance(Store, o, s) = 0 =>
              \A to \in Keys, a \in 1 .. MaxAmt : ~TransferFrom(Begin, s, o, to, a).ok
    /\ \A call \in PublicCalls :
          LET res == Invoke(Begin, call)
          IN  res.ok /\ res.t.wr.al # allowance =>
                  \A o \in Principals, s \in Principals :
                      Allowance(Store, o, s) = 0 /\ Allowance(res.t.wr, o, s) # 0
                          => call.op = "Approve" /\ call.c = o /\ call.k1 = s

DrawsAllowance(Vs) ==
    \A o \in Principals, s \in Principals, to \in Keys, v \in Vs :
        Exists(Store, o) /\ BalanceOf(Store, o) >= v =>
            LET res == ApproveThenDraw(o, s, to, v)
            IN  res.ok /\ Allowance(res.t.wr, o, s) = 0

\* C8 as stated: after an owner with balance >= v calls Approve(spender, v),
\* a TransferFrom of exactly v by the spender succeeds and leaves the
\* allowance at zero; later positive draws fail until the owner approves
\* again.
C8_ApproveThenDrain == DrawsAllowance(Amounts) /\ DrainedUntilApproved

\* C8 amended: the same for every v >= 0.
C8_ApproveThenDrainNonNegative == DrawsAllowance(0 .. MaxAmt) /\ DrainedUntilApproved

\* An owner can approve and have drawn a positive value that its balance covers.
C8_Witness ==
    \E o \in Principals, s \in Principals, v \in 1 .. MaxAmt :
        /\ o # s
        /\ Exists(Store, o) /\ BalanceOf(Store, o) >= v
        /\ ApproveThenDraw(o, s, s, v).ok
        /\ BalanceOf(ApproveThenDraw(o, s, s, v).t.wr, s) = BalanceOf(Store, s) + v

\* C9: ExecuteMint / ExecuteBurn succeeds only on the caller's own entry
\* being Approved, of the matching kind and for exactly that amount, and
\* otherwise leaves the store as it was; a successful execution removes the
\* entry, so the caller's GetMintOrder / GetBurnOrder and a repeated
\* execution fail.
C9_ExecuteNeedsApprovedOrder ==
    \A c \in Principals, a \in Amounts :
        /\ LET res == ExecuteMint(Begin, c, a)
           IN  /\ res.ok => OrderOf(Store, c) = St_am("Mint", a, stateApproved)
               /\ ~res.ok => After(res) = Store
               /\ res.ok => /\ OrderOf(res.t.wr, c) = NoOrder
                            /\ ~GetMintOrder(On(res.t.wr), c).ok
                            /\ \A b \in Amounts : ~ExecuteMint(On(res.t.wr), c, b).ok
        /\ LET res == ExecuteBurn(Begin, c, a)
           IN  /\ res.ok => OrderOf(Store, c) = St_am("Burn", a, stateApproved)
               /\ ~res.ok => After(res) = Store
               /\ res.ok => /\ OrderOf(res.t.wr, c) = NoOrder
                            /\ ~GetBurnOrder(On(res.t.wr), c).ok
                            /\ \A b \in Amounts : ~ExecuteBurn(On(res.t.wr), c, b).ok

\* A mint has been executed: the tokens are in the account, the entry is
\* gone and the order can no longer be read.
C9_Witness ==
    \E c \in Principals :
        /\ issued > 0
        /\ BalanceOf(Store, c) > 0
        /\ state[MintBurnKey].kind = "orders"
        /\ OrderOf(Store, c) = NoOrder
        /\ ~GetMintOrder(Begin, c).ok

Decisions == {"ApproveMint", "ApproveBurn", "RejectMint", "RejectBurn"}

\* C10: ApproveMint, ApproveBurn, RejectMint and RejectBurn fail for a caller
\* outside Org1MSP and write nothing, and no invocation by such a caller
\* turns any entry into an Approved or Rejected one.
C10_OnlyOrg1Decides ==
    \A call \in PublicCalls :
        GetMSPID(call.c) # "Org1MSP" =>
            LET res == Invoke(Begin, call)
            IN  /\ call.op \in Decisions => ~res.ok /\ res.t.wr = Store
                /\ After(res).tbl # orders =>
                      \A p \in Principals :
                          OrderOf(After(res), p).State \in {stateApproved, stateRejected}
                              => OrderOf(After(res), p) = OrderOf(Store, p)

\* An entry waits for a decision that the approving organization can take
\* and a caller of another organization cannot.
C10_Witness ==
    \E c \in Principals, d \in Principals, acc \in Principals :
        /\ GetMSPID(c) # "Org1MSP" /\ GetMSPID(d) = "Org1MSP"
        /\ OrderOf(Store, acc).State = stateOrder
        /\ OrderOf(Store, acc).MintBurn = "Mint"
        /\ ApproveMint(Begin, c, acc).err = "client is not authorized"
        /\ ApproveMint(Begin, d, acc).ok

\* The target of a decision on a mint (burn) order can be decided: it has a
\* Mint (Burn) entry whose status is Ordered.
Decidable(S, acc, kind) ==
    OrderOf(S, acc).MintBurn = kind /\ OrderOf(S, acc).State = stateOrder

Decided == {stateApproved, stateRejected}

\* C11: a decision fails and leaves the order table as it was when its
\* target has no order, an order of the other kind or an order already
\* Approved or Rejected; an entry becomes Approved or Rejected only from
\* Ordered, and an Approved or Rejected entry leaves that status only by the
\* principal's own new order (back to Ordered) or by its deletion on the
\* principal's execution.
C11_StatusOnlyMovesForward ==
    /\ \A c \in Principals, acc \in Keys :
          /\ ~Decidable(Store, acc, "Mint") =>
                /\ ~ApproveMint(Begin, c, acc).ok
                /\ ~RejectMint(Begin, c, acc).ok
          /\ ~Decidable(Store, acc, "Burn") =>
                /\ ~ApproveBurn(Begin, c, acc).ok
                /\ ~RejectBurn(Begin, c, acc).ok
    /\ \A call \in PublicCalls :
          LET res == Invoke(Begin, call)
          IN  After(res).tbl # orders =>
                \A p \in Principals :
                    LET old == OrderOf(Store, p)
                        new == OrderOf(After(res), p)
                    IN  /\ new.State \in Decided /\ new.State # old.State =>
                              /\ old.State = stateOrder
                              /\ call.op \in Decisions /\ call.k1 = p
                        /\ old.State \in Decided /\ new.State # old.State =>
                              \/ /\ call.op \in {"OrderMint", "OrderBurn"}
                                 /\ call.c = p /\ new.State = stateOrder
                              \/ /\ call.op \in {"ExecuteMint", "ExecuteBurn"}
                                 /\ call.c = p /\ new = NoOrder

\* C12: in every reachable state a successful OrderBurn(amount) by p leaves
\* p's entry as {Burn, amount, Ordered}, so that a following ApproveBurn(p)
\* by the approving organization succeeds and a following GetBurnOrder by p
\* returns that order.
C12_OrderBurnStoresBurnOrder ==
    \A p \in Principals, a \in Amounts :
        LET res == OrderBurn(Begin, p, a)
        IN  res.ok =>
              /\ OrderOf(res.t.wr, p) = St_am("Burn", a, stateOrder)
              /\ \A d \in Principals :
                    GetMSPID(d) = "Org1MSP" => ApproveBurn(On(res.t.wr), d, p).ok
              /\ GetBurnOrder(On(res.t.wr), p).ok
              /\ GetBurnOrder(On(res.t.wr), p).mo = St_am("Burn", a, stateOrder)

\* C13: OrderMint(amount) fails when the caller has no account; otherwise it
\* leaves the caller's entry as {Mint, amount, Ordered} whatever the entry
\* was before, and every other principal's entry as it was.
C13_OrderMintOverwritesOwnEntry ==
    \A p \in Principals, a \in Amounts :
        LET res == OrderMint(Begin, p, a)
        IN  /\ ~Exists(Store, p) => ~res.ok /\ res.t.wr = Store
            /\ Exists(Store, p) =>
                  /\ res.ok
                  /\ OrderOf(res.t.wr, p) = St_am("Mint", a, stateOrder)
                  /\ \A q \in Principals \ {p} : OrderOf(res.t.wr, q) = OrderOf(Store, q)

\* C14: ExecuteBurn by a caller outside Org1MSP fails, even on the caller's
\* own Approved burn order for that amount, and leaves the caller's balance,
\* the total supply and the order entry as they were.
C14_BurnOnlyByOrg1 ==
    \A c \in Principals, a \in Amounts :
        GetMSPID(c) # "Org1MSP" =>
            LET res == ExecuteBurn(Begin, c, a)
            IN  /\ ~res.ok
                /\ BalanceOf(After(res), c) = BalanceOf(Store, c)
                /\ TotalSupply(After(res)) = TotalSupply(Store)
                /\ OrderOf(After(res), c) = OrderOf(Store, c)
                /\ After(res) = Store

\* A caller outside Org1MSP holds an Approved burn order while a total supply
\* is recorded, and its ExecuteBurn of that amount is refused for its
\* organization.
C14_Witness ==
    \E c \in Principals, a \in 1 .. MaxAmt :
        /\ GetMSPID(c) # "Org1MSP"
        /\ Exists(Store, totalSupplyKey)
        /\ OrderOf(Store, c) = St_am("Burn", a, stateApproved)
        /\ ExecuteBurn(Begin, c, a).err = "client is not authorized"

\* C15: whatever the public operation invoked, the status stored under an
\* auction identifier only moves forward along open -> closed -> ended
\* (record deleted): a closed auction is never open again, an open auction
\* is not deleted without having been closed, and no operation of the
\* ledger touches it.
C15_AuctionStatusMovesForward ==
    \A id \in AuctionIDs :
        /\ \A call \in AuctionCalls :
              LET after == StatusOf(After(InvokeAuction(Begin, call)), id)
              IN  /\ StatusOf(Store, id) = "closed" => after \in {"closed", ""}
                  /\ StatusOf(Store, id) = "open" => after \in {"open", "closed"}
                  /\ after # "ended"
        /\ \A call \in PublicCalls :
              AuctionOf(After(Invoke(Begin, call)), id) = AuctionOf(Store, id)

\* The bidders whose bids the auction stored under id holds.
Bidders(S, id) ==
    {AuctionOf(S, id).RevealedBids[k].Bidder : k \in DOMAIN AuctionOf(S, id).RevealedBids}

\* C16: every bidder whose Bid_Rev on the auction succeeded still has a bid
\* in the auction's RevealedBids: the bid of a later, distinct bidder neither
\* overwrites nor removes it.
C16_EveryBidderRetained ==
    \A id \in AuctionIDs :
        IsAuction(Store, id) =>
            \A b \in Principals : submitted[id][b] > 0 => b \in Bidders(Store, id)

\* The bidders with a bid submitted to the auction under id that exceeds its
\* reserve (quantity x unit price), and the highest price submitted by them.
Exceeding(S, id) ==
    {b \in Principals :
        submitted[id][b] > AuctionOf(S, id).Amount * AuctionOf(S, id).PricePerKWh}
Highest(id, bs) ==
    CHOOSE m \in {submitted[id][b] : b \in bs} : \A b \in bs : submitted[id][b] <= m

\* C17: when EndAuction succeeds, the winning price is the highest price
\* among the bids submitted to the auction that exceed the reserve, and the
\* winner is the bidder of a bid of that price, whatever the order of the
\* bids.
C17_HighestBidWins ==
    \A c \in Principals, id \in AuctionIDs :
        EndAuction(Begin, c, id).ok /\ Exceeding(Store, id) # {} =>
            \A ended \in EndedRecords(AuctionOf(Store, id)) :
                /\ ended.Price = Highest(id, Exceeding(Store, id))
                /\ ended.Winner \in Exceeding(Store, id)
                /\ submitted[id][ended.Winner] = ended.Price

\* C18: Bid_Rev on an auction that is closed, or that has been ended and so
\* is no longer stored, fails and leaves the auction record and the caller's
\* balance and hold as they were.
C18_NoBidUnlessOpen ==
    \A c \in Principals, id \in AuctionIDs, a \in Bids :
        StatusOf(Store, id) # "open" =>
            LET res == Bid_Rev(Begin, c, id, a)
            IN  /\ ~res.ok
                /\ AuctionOf(After(res), id) = AuctionOf(Store, id)
                /\ BalanceOf(After(res), c) = BalanceOf(Store, c)
                /\ After(res).hold[c] = hold[c]

\* A closed auction that is not expired refuses the bid of a caller whose
\* balance covers it.
C18_Witness ==
    \E c \in Principals, id \in AuctionIDs, a \in 1 .. MaxVal :
        /\ StatusOf(Store, id) = "closed"
        /\ Elapsed(AuctionOf(Store, id)) < AuctionOf(Store, id).Time_remaining
        /\ Exists(Store, c) /\ BalanceOf(Store, c) >= a
        /\ Bid_Rev(Begin, c, id, a).err = "cannot join closed or ended auction"

\* C19: Bid_Rev by a caller whose balance is less than the amount fails: the
\* caller's hold and balance and the auction record stay as they were.
C19_BidNeedsBalance ==
    \A c \in Principals, id \in AuctionIDs, a \in Bids :
        BalanceOf(Store, c) < a =>
            LET res == Bid_Rev(Begin, c, id, a)
            IN  /\ ~res.ok
                /\ After(res).hold[c] = hold[c]
                /\ BalanceOf(After(res), c) = BalanceOf(Store, c)
                /\ AuctionOf(After(res), id) = AuctionOf(Store, id)

\* An open auction that is not expired refuses the bid of an account holder
\* for more than the balance.
C19_Witness ==
    \E c \in Principals, id \in AuctionIDs, a \in 1 .. MaxVal :
        /\ StatusOf(Store, id) = "open"
        /\ Elapsed(AuctionOf(Store, id)) < AuctionOf(Store, id).Time_remaining
        /\ Exists(Store, c) /\ BalanceOf(Store, c) > 0 /\ BalanceOf(Store, c) < a
        /\ Bid_Rev(Begin, c, id, a).err = "balance is less than amount"

\* C20: EndAuction on an auction without a revealed bid fails, whoever calls
\* it, and leaves the auction record as it was.
C20_NoEndWithoutBid ==
    \A c \in Principals, id \in AuctionIDs :
        IsAuction(Store, id) /\ DOMAIN AuctionOf(Store, id).RevealedBids = {} =>
            LET res == EndAuction(Begin, c, id)
            IN  ~res.ok /\ AuctionOf(After(res), id) = AuctionOf(Store, id)

\* The seller of a closed auction without a bid is refused for the lack of a
\* bid.
C20_Witness ==
    \E id \in AuctionIDs :
        /\ StatusOf(Store, id) = "closed"
        /\ DOMAIN AuctionOf(Store, id).RevealedBids = {}
        /\ EndAuction(Begin, AuctionOf(Store, id).Seller, id).err
              = "no bids have been revealed, cannot end auction"

FailsAsNotFound(S, id, unauthorized) ==
    \A d \in Principals :
        /\ \A a \in Bids : Bid_Rev(On(S), d, id, a).err = "Auction not found"
        /\ CloseAuction(On(S), d, id).err = "Auction interest object not found"
        /\ EndAuction(On(S), d, id).err = "Auction interest object not found"
        /\ CheckAuction(On(S), d, id).err =
               IF GetMSPID(d) = "Org1MSP" THEN "Auction not found" ELSE unauthorized

\* The store holds no ended auction, and on what a successful EndAuction
\* leaves the record is absent and the calls on the identifier fail as
\* FailsAsNotFound says.
EndedAuctionGone(unauthorized) ==
    \A id \in AuctionIDs :
        /\ StatusOf(Store, id) # "ended"
        /\ \A c \in Principals :
              LET res == EndAuction(Begin, c, id)
              IN  res.ok => /\ GetState(On(After(res)), id).kind = "nil"
                            /\ FailsAsNotFound(After(res), id, unauthorized)

Expired(S, id) ==
    /\ StatusOf(S, id) = "open"
    /\ Elapsed(AuctionOf(S, id)) >= AuctionOf(S, id).Time_remaining

\* C23: Bid_Rev on an open auction whose elapsed time has reached its
\* duration fails with "time is up" and leaves the store as it was: no bid is
\* recorded and no hold is created or changed, whoever calls and whatever
\* the amount.
C23_NoBidAfterTimeIsUp ==
    \A c \in Principals, id \in AuctionIDs, a \in Bids :
        Expired(Store, id) =>
            LET res == Bid_Rev(Begin, c, id, a)
            IN  /\ ~res.ok
                /\ res.err = "time is up"
                /\ After(res) = Store
                /\ AuctionOf(After(res), id).RevealedBids = AuctionOf(Store, id).RevealedBids
                /\ After(res).hold = hold

\* The time of an open auction is up and a caller who could pay for the bid
\* is refused.
C23_Witness ==
    \E c \in Principals, id \in AuctionIDs :
        /\ Expired(Store, id)
        /\ Exists(Store, c) /\ BalanceOf(Store, c) >= 1
        /\ AuctionOf(Store, id).Seller # c
        /\ Bid_Rev(Begin, c, id, 1).err = "time is up"

\* C24: Bid_Rev or CheckAuction on an open auction whose elapsed time has
\* reached its duration closes and ends it: after the invocation the auction
\* stored under the identifier is not open any more.
C24_ExpiredAuctionIsClosed ==
    \A c \in Principals, id \in AuctionIDs :
        Expired(Store, id) =>
            /\ \A a \in Bids : StatusOf(After(Bid_Rev(Begin, c, id, a)), id) # "open"
            /\ GetMSPID(c) = "Org1MSP" =>
                   StatusOf(After(CheckAuction(Begin, c, id)), id) # "open"

\* The ledger invocations that the auctions run on: accounts, mint orders
\* and holds, with key arguments that name principals.
FundingCalls ==
    {Invocation("CreateAccount", c, "", "", 0) : c \in Principals}
    \cup {Invocation(op, c, "", "", a) :
            op \in {"CreateHold", "OrderMint", "ExecuteMint"}, c \in Principals, a \in Amounts}
    \cup {Invocation(op, c, k, "", 0) :
            op \in {"ReturnHold", "ApproveMint"}, c \in Principals, k \in Principals}

CreateAccountKeepsBalance(err) ==
    \A c \in Principals :
        LET res == CreateAccount_read(Begin, c, err)
        IN  IF Exists(Store, c)
            THEN ~res.ok /\ After(res) = Store
            ELSE res.ok /\ After(res) = [Store EXCEPT !.ws[c] = Bytes(IntV(0))]

\* C26: CreateAccount fails when a balance record already exists for the
\* caller and leaves that balance unchanged (it never resets it to 0);
\* otherwise it creates the caller's balance record with value 0.
C26_CreateAccountNeverResets ==
    \A err \in BOOLEAN : CreateAccountKeepsBalance(err)

\* C27: CheckAuction fails for every caller outside Org1MSP; for a caller of
\* Org1MSP it succeeds and returns the stored auction record exactly when an
\* auction is stored under the identifier, is open and its elapsed time is
\* below its duration, and returns an error when the record is missing, not
\* open or expired. No outcome changes the store.
C27_CheckAuctionOutcome ==
    \A c \in Principals, id \in AuctionIDs :
        LET res == CheckAuction(Begin, c, id)
            live == StatusOf(Store, id) = "open" /\ ~Expired(Store, id)
        IN  /\ After(res) = Store
            /\ GetMSPID(c) # "Org1MSP" =>
                   ~res.ok /\ res.err = "client is not authorized to check auctions"
            /\ GetMSPID(c) = "Org1MSP" =>
                   /\ res.ok <=> live
                   /\ res.ok => res.auction = AuctionOf(Store, id)
                   /\ ~IsAuction(Store, id) => res.err = "Auction not found"
                   /\ IsAuction(Store, id) /\ StatusOf(Store, id) # "open" =>
                          res.err = "auction closed or ended auction"
                   /\ Expired(Store, id) => res.err = "auction closed and ended"

\* An open auction with a bid and time left: the caller of Org1MSP gets the
\* record, the caller of another organization is refused.
C27_Witness ==
    \E c, d \in Principals, id \in AuctionIDs :
        /\ StatusOf(Store, id) = "open" /\ ~Expired(Store, id)
        /\ DOMAIN AuctionOf(Store, id).RevealedBids # {}
        /\ CheckAuction(Begin, c, id).ok
        /\ CheckAuction(Begin, c, id).auction = AuctionOf(Store, id)
        /\ CheckAuction(Begin, d, id).err = "client is not authorized to check auctions"

\* C28: ExecuteHold(holder, amount) by a caller other than the holder fails,
\* changing nothing, when the holder has no hold record or the amount
\* exceeds the hold; when it succeeds the caller's balance grows by the
\* amount, the holder's balance grows by the hold minus the amount, every
\* hold record keeps the value it had, and the same call succeeds again on
\* the store it leaves.
C28_ExecuteHoldKeepsHold ==
    \A c \in Principals : \A h \in Principals \ {c}, a \in Amounts :
        LET res == ExecuteHold(Begin, c, h, a)
            S == After(res)
        IN  /\ ~HasHold(Store, h) \/ a > OnHold(Store, h) => ~res.ok /\ S = Store
            /\ res.ok =>
                   /\ BalanceOf(S, c) = BalanceOf(Store, c) + a
                   /\ BalanceOf(S, h) = BalanceOf(Store, h) + OnHold(Store, h) - a
                   /\ S.hold = hold
                   /\ ExecuteHold(On(S), c, h, a).ok

\* A hold is executed in full by another principal and can be executed in
\* full once more.
C28_Witness ==
    \E c \in Principals : \E h \in Principals \ {c} :
        LET res == ExecuteHold(Begin, c, h, OnHold(Store, h))
            again == ExecuteHold(On(After(res)), c, h, OnHold(Store, h))
        IN  /\ OnHold(Store, h) > 0
            /\ res.ok
            /\ again.ok
            /\ BalanceOf(After(again), c) = BalanceOf(Store, c) + 2 * OnHold(Store, h)

\* C29: a successful Bid_Rev(auctionID, amount) stores the revealed bid
\* {price = amount, bidder = caller, org = the caller's organization} in the
\* auction, appends the caller's organization to the auction's
\* organizations exactly when it is not among them, takes amount off the
\* caller's balance and adds it to the caller's hold; the auction's status,
\* seller, reserve price and other terms, every other principal's balance
\* and hold, the total supply, the order table and the allowances stay as
\* they were.
C29_BidRevEffect ==
    \A c \in Principals, id \in AuctionIDs, a \in Bids :
        LET res == Bid_Rev(Begin, c, id, a)
            S == After(res)
            old == AuctionOf(Store, id)
            new == AuctionOf(S, id)
            org == GetMSPID(c)
        IN  res.ok =>
                /\ bidKey(id) \in DOMAIN new.RevealedBids
                /\ new.RevealedBids[bidKey(id)] = FullBid(a, org, c)
                /\ new.Orgs = IF \E i \in DOMAIN old.Orgs : old.Orgs[i] = org
                              THEN old.Orgs ELSE Append(old.Orgs, org)
                /\ BalanceOf(S, c) = BalanceOf(Store, c) - a
                /\ OnHold(S, c) = (IF HasHold(Store, c) THEN OnHold(Store, c) ELSE 0) + a
                /\ new = [old EXCEPT !.RevealedBids = new.RevealedBids, !.Orgs = new.Orgs]
                /\ new.Status = "open" /\ new.Seller = old.Seller /\ new.Price = old.Price
                /\ \A q \in Principals \ {c} : S.ws[q] = state[q] /\ S.hold[q] = hold[q]
                /\ S.ws[totalSupplyKey] = state[totalSupplyKey]
                /\ S.tbl = orders /\ S.al = allowance

\* A bidder of an organization that has not bid yet bids on another
\* principal's auction: the organization joins and the amount goes on hold.
C29_Witness ==
    \E c \in Principals, id \in AuctionIDs :
        LET res == Bid_Rev(Begin, c, id, 1)
        IN  /\ res.ok
            /\ AuctionOf(Store, id).Seller # c
            /\ ~contains(AuctionOf(Store, id).Orgs, GetMSPID(c))
            /\ Len(AuctionOf(After(res), id).Orgs) = Len(AuctionOf(Store, id).Orgs) + 1
            /\ OnHold(After(res), c) = 1
            /\ BalanceOf(After(res), c) = BalanceOf(Store, c) - 1

\* C30: TransferFrom(from, to, value) by a spender fails, leaving balances
\* and allowances as they were, whenever the allowance of (from, spender),
\* 0 when none was granted, is below value; when it succeeds that allowance
\* goes down by exactly value and no other allowance changes. Approve(spender,
\* value) succeeds and sets the allowance of (caller, spender) to value
\* whatever it was before, changing nothing else.
C30_AllowanceAccounting ==
    /\ \A spender \in Principals, from \in Principals, to \in Keys, value \in Amounts :
          LET res == TransferFrom(Begin, spender, from, to, value)
              S == After(res)
          IN  /\ Allowance(Store, from, spender) < value =>
                     /\ ~res.ok
                     /\ res.err = "spender does not have enough allowance for transfer"
                     /\ S = Store
              /\ res.ok =>
                     S.al = [allowance EXCEPT ![<<from, spender>>] = @ - value]
    /\ \A owner \in Principals, spender \in Principals, value \in Amounts :
          LET res == Approve(Begin, owner, spender, value)
          IN  /\ res.ok
              /\ After(res) = [Store EXCEPT !.al[<<owner, spender>>] = value]

\* Both principals hold funds and one has granted the other an allowance of
\* 1: the grantee draws it and the allowance is gone, the grantor, who was
\* granted nothing, is refused, and an approval of 0 replaces the grant.
C30_Witness ==
    \E spender \in Principals, from \in Principals :
        /\ Allowance(Store, from, spender) = 1
        /\ Allowance(Store, spender, from) = 0
        /\ BalanceOf(Store, from) >= 1 /\ BalanceOf(Store, spender) >= 1
        /\ TransferFrom(Begin, spender, from, spender, 1).ok
        /\ Allowance(After(TransferFrom(Begin, spender, from, spender, 1)), from, spender) = 0
        /\ TransferFrom(Begin, from, spender, from, 1).err =
               "spender does not have enough allowance for transfer"
        /\ Allowance(After(Approve(Begin, from, spender, 0)), from, spender) = 0

\* C31: the package function CloseAuction that the expiry path of Bid_Rev
\* and CheckAuction calls makes the step from open to closed without a seller
\* check: run on an open auction in an invocation whose caller is not the
\* seller, it succeeds and writes status closed.
C31_InternalCloseHasNoSellerCheck ==
    \A c \in Principals, id \in AuctionIDs :
        StatusOf(Store, id) = "open" /\ AuctionOf(Store, id).Seller # c =>
            LET r == CloseAuction_package(Begin, c, id)
            IN  r.ok /\ StatusOf(r.t.wr, id) = "closed"

\* The sum of the holds of the given principals.
RECURSIVE SumHolds(_, _)
SumHolds(S, ps) ==
    IF ps = {} THEN 0
    ELSE LET p == CHOOSE x \in ps : TRUE
         IN  OnHold(S, p) + SumHolds(S, ps \ {p})

\* C32: in every reachable state the balances stored under all keys other
\* than the total supply's, plus the outstanding holds of all principals,
\* add up to the stored total supply.
C32_LedgerConservation ==
    SumOver(Store, Keys \ {totalSupplyKey}) + SumHolds(Store, Principals)
        = TotalSupply(Store)

\* C33: in every reachable state every revealed bid recorded in a stored
\* auction, open or closed, is covered by its bidder's hold: the hold is at
\* least the price of the bid.
C33_BidsBackedByHold ==
    \A id \in AuctionIDs :
        IsAuction(Store, id) =>
            \A k \in DOMAIN AuctionOf(Store, id).RevealedBids :
                LET bid == AuctionOf(Store, id).RevealedBids[k]
                IN  OnHold(Store, bid.Bidder) >= bid.Price

\* The invocations of the order workflow and the transfers, with key
\* arguments over all simple keys.
WorkflowCalls ==
    {Invocation("CreateAccount", c, "", "", 0) : c \in Principals}
    \cup {Invocation(op, c, "", "", a) :
            op \in {"OrderMint", "OrderBurn", "ExecuteMint", "ExecuteBurn"},
            c \in Principals, a \in Amounts}
    \cup {Invocation(op, c, k, "", 0) :
            op \in {"ApproveMint", "ApproveBurn", "RejectMint", "RejectBurn"},
            c \in Principals, k \in Keys}
    \cup {Invocation("Transfer", c, k, "", a) : c \in Principals, k \in Keys, a \in Amounts}

\* The invocation turns the entry of p into the given one.
Makes(call, p, entry) ==
    /\ Invoke(Begin, call).ok
    /\ OrderOf(After(Invoke(Begin, call)), p) = entry
    /\ OrderOf(Store, p) # entry

\* The chain from order to execution, over the invocations in calls: a mint
\* of amount a by p succeeds only on an approved mint order of p for a and
\* uses it up; only ApproveMint(p) by a caller of Org1MSP, on a mint order of
\* p for a that waits for its decision, makes an approved one; and only
\* OrderMint(a) by p makes a waiting mint order of p for a.
MintChain(calls) ==
    \A p \in Principals, a \in Amounts :
        /\ LET res == ExecuteMint(Begin, p, a)
           IN  res.ok => /\ OrderOf(Store, p) = St_am("Mint", a, stateApproved)
                         /\ \A b \in Amounts : ~ExecuteMint(On(After(res)), p, b).ok
        /\ \A call \in calls :
              /\ Makes(call, p, St_am("Mint", a, stateApproved)) =>
                     /\ call.op = "ApproveMint" /\ call.k1 = p
                     /\ GetMSPID(call.c) = "Org1MSP"
                     /\ OrderOf(Store, p) = St_am("Mint", a, stateOrder)
              /\ Makes(call, p, St_am("Mint", a, stateOrder)) =>
                     call.op = "OrderMint" /\ call.c = p /\ call.a = a

\* C34: every successful ExecuteMint(amount) by p follows a successful
\* ApproveMint(p) by a caller of the approving organization, which follows an
\* OrderMint(amount) by p for the same amount with no other order by p in
\* between, and each approval permits one execution at most.
C34_MintFollowsOrderAndApproval == MintChain(WorkflowCalls)

\* C35: whatever strings an operation is given, it overwrites no record of
\* another component: once the total supply and the order table are stored,
\* a Transfer, for every recipient key, leaves them as they were, and a
\* CreateAuction, for every identifier, leaves a balance, the total supply
\* or the order table stored under that identifier as it was.
C35_RecordKindsNeverCollide ==
    /\ \A c \in Principals, r \in Keys, a \in Amounts :
          LET S == After(Transfer(Begin, c, r, a))
          IN  Exists(Store, totalSupplyKey) /\ state[MintBurnKey].kind = "orders" =>
                  /\ S.ws[totalSupplyKey] = state[totalSupplyKey]
                  /\ S.ws[MintBurnKey] = state[MintBurnKey]
    /\ \A c \in Principals, k \in Keys, p \in UnitPrices, q \in Quantities, d \in Durations :
          Exists(Store, k) => After(CreateAuction(Begin, c, k, p, q, d)).ws[k] = state[k]

\* C36: when EndAuction succeeds, the record it ends the auction with has,
\* whatever the order of the scan, either as winner the bidder of a recorded
\* revealed bid whose price is above the reserve (quantity x unit price) and
\* as final price the price of that bid, or, when no recorded bid is above
\* the reserve, an empty winner and the reserve as final price.
C36_WinnerOrReserve ==
    \A c \in Principals, id \in AuctionIDs :
        EndAuction(Begin, c, id).ok =>
            LET old == AuctionOf(Store, id)
                reserve == old.Amount * old.PricePerKWh
                bids == old.RevealedBids
            IN  /\ old.Price = reserve
                /\ GetState(On(After(EndAuction(Begin, c, id))), id).kind = "nil"
                /\ \A ended \in EndedRecords(old) :
                      /\ ended.Status = "ended"
                      /\ \/ \E k \in DOMAIN bids :
                               /\ bids[k].Price > reserve
                               /\ ended.Winner = bids[k].Bidder
                               /\ ended.Price = bids[k].Price
                         \/ /\ \A k \in DOMAIN bids : bids[k].Price <= reserve
                            /\ ended.Winner = ""
                            /\ ended.Price = reserve

\* A closed auction with reserve 1 and a recorded bid of 1, which is not
\* above the reserve: the seller ends it with no winner at the reserve.
C36_Witness ==
    \E id \in AuctionIDs :
        LET old == AuctionOf(Store, id)
        IN  /\ EndAuction(Begin, old.Seller, id).ok
            /\ old.Price = 1
            /\ \E k \in DOMAIN old.RevealedBids : old.RevealedBids[k].Price = 1
            /\ \A ended \in EndedRecords(old) : ended.Winner = "" /\ ended.Price = 1

\* The records of the ledger: balances, total supply and order table under
\* the simple keys, the holds and the allowances.
Ledger(S) ==
    [ws |-> [k \in Keys |-> S.ws[k]], tbl |-> S.tbl, hold |-> S.hold, al |-> S.al]

\* C37: CloseAuction and EndAuction, whoever calls them and whether they
\* succeed or fail, change no balance, hold, allowance, total supply or
\* order entry: ending an auction neither moves the winner's hold to the
\* seller nor returns a bidder's hold.
C37_CloseAndEndLeaveLedger ==
    \A c \in Principals, id \in AuctionIDs :
        /\ Ledger(After(CloseAuction(Begin, c, id))) = Ledger(Store)
        /\ Ledger(After(EndAuction(Begin, c, id))) = Ledger(Store)

\* The seller ends an auction that another principal wins with a bid on
\* hold: the winner's hold and the seller's balance are what they were.
C37_Witness ==
    \E id \in AuctionIDs, w \in Principals :
        LET old == AuctionOf(Store, id)
            res == EndAuction(Begin, old.Seller, id)
        IN  /\ res.ok
            /\ w # old.Seller
            /\ \A ended \in EndedRecords(old) : ended.Winner = w
            /\ OnHold(Store, w) > 0
            /\ OnHold(After(res), w) = OnHold(Store, w)
            /\ BalanceOf(After(res), old.Seller) = BalanceOf(Store, old.Seller)

\* C38: no reachable state holds a closed auction without a revealed bid:
\* every closed auction can be ended by its seller with a successful
\* EndAuction.
C38_NoStuckAuction ==
    \A id \in AuctionIDs :
        StatusOf(Store, id) = "closed" =>
            /\ DOMAIN AuctionOf(Store, id).RevealedBids # {}
            /\ EndAuction(Begin, AuctionOf(Store, id).Seller, id).ok
====
